---- MODULE Spec2Model ----
\* AVL tree of src/binary-tree/implementation.py (classes AVLNode, AVLTree and
\* the methods AVLTree inherits from BinarySearchTree and BinaryTree), followed
\* by the Trie, the Graph, the CircularQueue, the MinHeap and
\* interpolation_search, each under a specification of its own.
\*
\* A tree is a nested value: None for an absent child, otherwise a record
\* [data, left, right, parent, height].  No method of AVLTree assigns the
\* parent field, so it keeps the None that TreeNode.__init__ gives it.
\*
\* A method's return value v is recorded as Returned(v), a returned None as
\* None and a raised exception e as Raised(e); search, delete and
\* inorder_traversal keep their plain boolean or list.
EXTENDS Integers, Sequences, FiniteSets, TLC

\* ---------------------------------------------------------------- bounds
\* Keys are drawn from 1..MaxKey; at most MaxOps insert/delete calls are made.
MaxKey == 6
MaxOps == 9
\* Call depth at which the interpreter gives up a recursion with
\* RecursionError; any depth above the tallest tree gives the same results.
RecursionLimit == 12
\* Length of the ascending run 1, 2, ..., AscLen of the AVL demonstration.
AscLen == 7

Keys == 1..MaxKey

\* The unbalanced tree takes keys 1..BstMaxKey and at most BstMaxOps
\* insert/delete calls.
BstMaxKey == 4
BstMaxOps == 6

BstKeys == 1..BstMaxKey

VARIABLES
    root,       \* AVLTree.root
    size,       \* AVLTree.size
    op,         \* the last public method called ("init" before any call)
    arg,        \* its argument (0 when it takes none)
    ret,        \* its return value
    prevRoot,   \* root immediately before the last call
    prevSize,   \* size immediately before the last call
    stored,     \* history: the keys inserted and not subsequently deleted
    nops,       \* number of insert/delete calls made so far
    obj,        \* the fields of the Trie, Graph, CircularQueue or MinHeap
                \* instance, or the arguments of the search function
    prevObj     \* obj immediately before the last call

vars == <<root, size, op, arg, ret, prevRoot, prevSize, stored, nops,
          obj, prevObj>>

\* ---------------------------------------------------------------- nodes
None == [isNone |-> TRUE]

NoRet == "none"

Returned(v) == [value |-> v]

Raised(e) == [raised |-> e]

AVLNode(data) ==
    [data |-> data, left |-> None, right |-> None, parent |-> None,
     height |-> 1]

Max(a, b) == IF a >= b THEN a ELSE b

_get_height(node) ==
    IF node = None THEN 0 ELSE node.height

_get_balance(node) ==
    IF node = None THEN 0
    ELSE _get_height(node.left) - _get_height(node.right)

_update_height(node) ==
    [node EXCEPT !.height =
        Max(_get_height(node.left), _get_height(node.right)) + 1]

\* Mutant of _rotate_right: the new subtree root's height is recomputed before
\* the height of the node that moved down.
_rotate_right_heights_swapped(y) ==
    LET x  == y.left
        T2 == x.right
        x2 == _update_height([x EXCEPT !.right = [y EXCEPT !.left = T2]])
    IN  [x2 EXCEPT !.right = _update_height(x2.right)]

\* x = y.left; T2 = x.right; x.right = y; y.left = T2; heights of y, then x.
_rotate_right(y) ==
    LET x  == y.left
        T2 == x.right
        y2 == _update_height([y EXCEPT !.left = T2])
    IN  _update_height([x EXCEPT !.right = y2])

\* Mutant of _rotate_left: T2 is not re-attached to the node that moved down.
_rotate_left_drops_T2(x) ==
    LET y  == x.right
        x2 == _update_height([x EXCEPT !.right = None])
    IN  _update_height([y EXCEPT !.left = x2])

\* y = x.right; T2 = y.left; y.left = x; x.right = T2; heights of x, then y.
_rotate_left(x) ==
    LET y  == x.right
        T2 == y.left
        x2 == _update_height([x EXCEPT !.right = T2])
    IN  _update_height([y EXCEPT !.left = x2])

\* ---------------------------------------------------------------- insert
\* What step 4 of _insert_avl and of _delete_avl does in each of its cases:
\* "LL" a right rotation, "RR" a left rotation, "LR" a left rotation of the
\* left child and then a right rotation, "RL" the mirror image, "none" nothing.
rotate_for(node, case) ==
    CASE case = "LL" -> _rotate_right(node)
      [] case = "RR" -> _rotate_left(node)
      [] case = "LR" ->
            _rotate_right([node EXCEPT !.left = _rotate_left(node.left)])
      [] case = "RL" ->
            _rotate_left([node EXCEPT !.right = _rotate_right(node.right)])
      [] OTHER -> node

\* Mutant of insert_case: the inserted key is compared with the key of the
\* node itself, not with the key of its heavier child.
insert_case_own_key(node, data) ==
    LET balance == _get_balance(node)
    IN  IF balance > 1 /\ data < node.data THEN "LL"
        ELSE IF balance < -1 /\ data > node.data THEN "RR"
        ELSE IF balance > 1 /\ data > node.data THEN "LR"
        ELSE IF balance < -1 /\ data < node.data THEN "RL"
        ELSE "none"

\* The case step 4 of _insert_avl selects at a node whose height was just
\* updated: the if statements in their order.
insert_case(node, data) ==
    LET balance == _get_balance(node)
    IN  IF balance > 1 /\ data < node.left.data THEN "LL"
        ELSE IF balance < -1 /\ data > node.right.data THEN "RR"
        ELSE IF balance > 1 /\ data > node.left.data THEN "LR"
        ELSE IF balance < -1 /\ data < node.right.data THEN "RL"
        ELSE "none"

\* Mutant of insert_rebalance: the thresholds are off by one (>= 1, <= -1).
insert_rebalance_eager(node0, data) ==
    LET node    == _update_height(node0)
        balance == _get_balance(node)
    IN  IF balance >= 1 /\ data < node.left.data
          THEN _rotate_right(node)
        ELSE IF balance <= -1 /\ data > node.right.data
          THEN _rotate_left(node)
        ELSE IF balance >= 1 /\ data > node.left.data /\ node.left.right # None
          THEN _rotate_right([node EXCEPT !.left = _rotate_left(node.left)])
        ELSE IF balance <= -1 /\ data < node.right.data /\ node.right.left # None
          THEN _rotate_left([node EXCEPT !.right = _rotate_right(node.right)])
        ELSE node

\* Mutant of insert_rebalance: heights are updated but no rotation is made.
insert_rebalance_no_rotation(node0, data) == _update_height(node0)

\* Steps 2-4 of _insert_avl, applied to a node whose child link was just
\* reassigned.
insert_rebalance(node0, data) ==
    LET node == _update_height(node0)
    IN  rotate_for(node, insert_case(node, data))

\* _insert_avl returns the new subtree root and updates self.size; the result
\* is the pair [node, size].
RECURSIVE _insert_avl(_, _, _)
_insert_avl(node, data, sz) ==
    IF node = None
      THEN [node |-> AVLNode(data), size |-> sz + 1]
    ELSE IF data < node.data
      THEN LET r == _insert_avl(node.left, data, sz)
           IN  [node |-> insert_rebalance([node EXCEPT !.left = r.node], data),
                size |-> r.size]
    ELSE IF data > node.data
      THEN LET r == _insert_avl(node.right, data, sz)
           IN  [node |-> insert_rebalance([node EXCEPT !.right = r.node], data),
                size |-> r.size]
    ELSE [node |-> node, size |-> sz]

\* AVLTree.insert
insert(rt, data, sz) ==
    IF rt = None
      THEN [node |-> AVLNode(data), size |-> 1]
      ELSE _insert_avl(rt, data, sz)

\* ---------------------------------------------------------------- delete
\* Mutant of _find_min_node: the walk to the leftmost node is left out.
_find_min_node_no_walk(node) == node

\* BinaryTree._find_min_node: while node.left: node = node.left
RECURSIVE _find_min_node(_)
_find_min_node(node) ==
    IF node.left # None THEN _find_min_node(node.left) ELSE node

\* Mutant of delete_rebalance: heights are updated but no rotation is made.
delete_rebalance_no_rotation(node0) == _update_height(node0)

\* Mutant of delete_rebalance: the thresholds are off by one (>= 1, <= -1).
delete_rebalance_eager(node0) ==
    LET node    == _update_height(node0)
        balance == _get_balance(node)
    IN  IF balance >= 1 /\ _get_balance(node.left) >= 0
          THEN _rotate_right(node)
        ELSE IF balance <= -1 /\ _get_balance(node.right) <= 0
          THEN _rotate_left(node)
        ELSE node

\* The case step 4 of _delete_avl selects at a node whose height was just
\* updated: the if statements in their order.
delete_case(node) ==
    LET balance == _get_balance(node)
    IN  IF balance > 1 /\ _get_balance(node.left) >= 0 THEN "LL"
        ELSE IF balance > 1 /\ _get_balance(node.left) < 0 THEN "LR"
        ELSE IF balance < -1 /\ _get_balance(node.right) <= 0 THEN "RR"
        ELSE IF balance < -1 /\ _get_balance(node.right) > 0 THEN "RL"
        ELSE "none"

\* Steps 2-4 of _delete_avl, applied to a node whose child link (and, for a
\* node with two children, whose data) was just reassigned.
delete_rebalance(node0) ==
    LET node == _update_height(node0)
    IN  rotate_for(node, delete_case(node))

\* _delete_avl returns the new subtree root and updates self.size; the result
\* is the pair [node, size].
RECURSIVE _delete_avl(_, _, _)

\* The two-children branch of _delete_avl before steps 2-4, sz being
\* self.size already decremented: the node takes the key of the leftmost node
\* of its right subtree and that key is deleted from the right subtree.
replace_with_successor(node, sz) ==
    LET successor == _find_min_node(node.right)
        r == _delete_avl(node.right, successor.data, sz)
    IN  [node |-> [node EXCEPT !.data = successor.data, !.right = r.node],
         size |-> r.size]

_delete_avl(node, data, sz) ==
    IF node = None
      THEN [node |-> None, size |-> sz]
    ELSE IF data < node.data
      THEN LET r == _delete_avl(node.left, data, sz)
           IN  [node |-> delete_rebalance([node EXCEPT !.left = r.node]),
                size |-> r.size]
    ELSE IF data > node.data
      THEN LET r == _delete_avl(node.right, data, sz)
           IN  [node |-> delete_rebalance([node EXCEPT !.right = r.node]),
                size |-> r.size]
    ELSE \* node to be deleted: self.size -= 1
         IF node.left = None
           THEN [node |-> node.right, size |-> sz - 1]
         ELSE IF node.right = None
           THEN [node |-> node.left, size |-> sz - 1]
         ELSE LET r == replace_with_successor(node, sz - 1)
              IN  [node |-> delete_rebalance(r.node), size |-> r.size]

\* Mutant of delete: reports success whenever the tree is not empty, as
\* BinarySearchTree.delete does.
delete_always_true(rt, data, sz) ==
    IF rt = None
      THEN [node |-> rt, size |-> sz, ret |-> FALSE]
      ELSE LET r == _delete_avl(rt, data, sz)
           IN  [node |-> r.node, size |-> r.size, ret |-> TRUE]

\* AVLTree.delete: the pair [node, size] and the returned boolean.
delete(rt, data, sz) ==
    IF rt = None
      THEN [node |-> rt, size |-> sz, ret |-> FALSE]
      ELSE LET initial_size == sz
               r == _delete_avl(rt, data, sz)
           IN  [node |-> r.node, size |-> r.size, ret |-> r.size < initial_size]

\* ---------------------------------------------------------------- queries
\* Mutant of search: only the root is compared.
search_root_only(rt, data) == rt # None /\ rt.data = data

\* BinarySearchTree._search_recursive: the node found, or None.
RECURSIVE _search_recursive(_, _)
_search_recursive(node, data) ==
    IF node = None \/ node.data = data THEN node
    ELSE IF data < node.data THEN _search_recursive(node.left, data)
    ELSE _search_recursive(node.right, data)

\* BinarySearchTree.search
search(rt, data) == _search_recursive(rt, data) # None

\* Mutant of find_min: the key at the root is taken for the minimum.
find_min_root(rt) ==
    IF rt = None THEN None ELSE Returned(rt.data)

\* BinarySearchTree.find_min
find_min(rt) ==
    IF rt = None THEN None ELSE Returned(_find_min_node(rt).data)

\* BinarySearchTree._find_max_in_subtree: while node.right: node = node.right
RECURSIVE _find_max_in_subtree(_)
_find_max_in_subtree(node) ==
    IF node.right # None THEN _find_max_in_subtree(node.right) ELSE node.data

\* BinarySearchTree.find_max; its loop is the loop of _find_max_in_subtree.
find_max(rt) ==
    IF rt = None THEN None ELSE Returned(_find_max_in_subtree(rt))

\* The loops of find_predecessor / find_successor: climb while the node is
\* the left / right child of its ancestor; the result is the ancestor left.
RECURSIVE climb_from_left(_, _)
climb_from_left(node, ancestor) ==
    IF ancestor # None /\ node = ancestor.left
      THEN climb_from_left(ancestor, ancestor.parent)
      ELSE ancestor

RECURSIVE climb_from_right(_, _)
climb_from_right(node, ancestor) ==
    IF ancestor # None /\ node = ancestor.right
      THEN climb_from_right(ancestor, ancestor.parent)
      ELSE ancestor

\* BinarySearchTree.find_predecessor
find_predecessor(rt, data) ==
    LET node == _search_recursive(rt, data)
    IN  IF node = None THEN None
        ELSE IF node.left # None
          THEN Returned(_find_max_in_subtree(node.left))
        ELSE LET ancestor == climb_from_left(node, node.parent)
             IN  IF ancestor # None THEN Returned(ancestor.data) ELSE None

\* BinarySearchTree.find_successor
find_successor(rt, data) ==
    LET node == _search_recursive(rt, data)
    IN  IF node = None THEN None
        ELSE IF node.right # None
          THEN Returned(_find_min_node(node.right).data)
        ELSE LET ancestor == climb_from_right(node, node.parent)
             IN  IF ancestor # None THEN Returned(ancestor.data) ELSE None

\* Mutant of _is_balanced_helper: only perfectly even nodes pass.
RECURSIVE _is_balanced_helper_strict(_)
_is_balanced_helper_strict(node) ==
    IF node = None THEN TRUE
    ELSE /\ _get_balance(node) = 0
         /\ _is_balanced_helper_strict(node.left)
         /\ _is_balanced_helper_strict(node.right)

\* AVLTree._is_balanced_helper: abs(balance) <= 1 at the node and below it,
\* the balance taken from the height fields.
RECURSIVE _is_balanced_helper(_)
_is_balanced_helper(node) ==
    IF node = None THEN TRUE
    ELSE LET balance == _get_balance(node)
         IN  /\ (IF balance < 0 THEN -balance ELSE balance) <= 1
             /\ _is_balanced_helper(node.left)
             /\ _is_balanced_helper(node.right)

\* AVLTree.is_balanced
is_balanced(rt) == _is_balanced_helper(rt)

\* BinaryTree.get_height(node) at call depth d on the tree rooted at rt: a
\* None argument is replaced by the root; the left height is computed first
\* and an exception raised there propagates.
RECURSIVE get_height_at(_, _, _)
get_height_at(node0, rt, d) ==
    IF d > RecursionLimit THEN Raised("RecursionError")
    ELSE LET node == IF node0 = None THEN rt ELSE node0
         IN  IF node = None THEN Returned(-1)
             ELSE IF node.left = None /\ node.right = None THEN Returned(0)
             ELSE LET left_height == get_height_at(node.left, rt, d + 1)
                  IN  IF left_height = Raised("RecursionError")
                        THEN left_height
                      ELSE LET right_height ==
                                   get_height_at(node.right, rt, d + 1)
                           IN  IF right_height = Raised("RecursionError")
                                 THEN right_height
                               ELSE Returned(Max(left_height.value,
                                                 right_height.value) + 1)

\* BinaryTree.get_height called without argument.
get_height(rt) == get_height_at(None, rt, 1)

\* Mutant of inorder_traversal: the node is visited before its left subtree.
\* BinaryTree._preorder_helper: node, left, right appended to the result.
RECURSIVE _preorder_helper(_)
_preorder_helper(node) ==
    IF node = None THEN <<>>
    ELSE <<node.data>> \o _preorder_helper(node.left) \o _preorder_helper(node.right)

inorder_traversal_preorder(rt) == _preorder_helper(rt)

\* BinaryTree._inorder_helper: left, node, right appended to the result.
RECURSIVE _inorder_helper(_)
_inorder_helper(node) ==
    IF node = None THEN <<>>
    ELSE _inorder_helper(node.left) \o <<node.data>> \o _inorder_helper(node.right)

\* BinaryTree.inorder_traversal called without argument: starts at the root.
inorder_traversal(rt) == _inorder_helper(rt)

\* BinaryTree.get_size
get_size(sz) == sz

\* ---------------------------------------------------------------- BST
\* BinarySearchTree builds its tree of TreeNode objects, which have no height
\* field.  _insert_recursive makes the parent field of a new node refer to the
\* node it is linked under; the reference is Ref(id), id being the number the
\* node got when it was created.
Ref(id) == [ref |-> id]

TreeNode(data, id) ==
    [data |-> data, left |-> None, right |-> None, parent |-> None, id |-> id]

\* _insert_recursive links a new node (numbered id) and updates self.size; the
\* result is the pair [node, size].
RECURSIVE _insert_recursive(_, _, _, _)
_insert_recursive(node, data, sz, id) ==
    IF data < node.data
      THEN IF node.left = None
             THEN [node |-> [node EXCEPT !.left =
                        [TreeNode(data, id) EXCEPT !.parent = Ref(node.id)]],
                   size |-> sz + 1]
             ELSE LET r == _insert_recursive(node.left, data, sz, id)
                  IN  [node |-> [node EXCEPT !.left = r.node], size |-> r.size]
    ELSE IF data > node.data
      THEN IF node.right = None
             THEN [node |-> [node EXCEPT !.right =
                        [TreeNode(data, id) EXCEPT !.parent = Ref(node.id)]],
                   size |-> sz + 1]
             ELSE LET r == _insert_recursive(node.right, data, sz, id)
                  IN  [node |-> [node EXCEPT !.right = r.node], size |-> r.size]
    ELSE [node |-> node, size |-> sz]

\* BinarySearchTree.insert
bst_insert(rt, data, sz, id) ==
    IF rt = None
      THEN [node |-> TreeNode(data, id), size |-> 1]
      ELSE _insert_recursive(rt, data, sz, id)

\* _delete_recursive returns the new subtree root and updates self.size; the
\* result is the pair [node, size].  No parent field is reassigned.
RECURSIVE _delete_recursive(_, _, _)
_delete_recursive(node, data, sz) ==
    IF node = None
      THEN [node |-> None, size |-> sz]
    ELSE IF data < node.data
      THEN LET r == _delete_recursive(node.left, data, sz)
           IN  [node |-> [node EXCEPT !.left = r.node], size |-> r.size]
    ELSE IF data > node.data
      THEN LET r == _delete_recursive(node.right, data, sz)
           IN  [node |-> [node EXCEPT !.right = r.node], size |-> r.size]
    ELSE \* node to be deleted: self.size -= 1
         IF node.left = None /\ node.right = None
           THEN [node |-> None, size |-> sz - 1]
         ELSE IF node.left = None
           THEN [node |-> node.right, size |-> sz - 1]
         ELSE IF node.right = None
           THEN [node |-> node.left, size |-> sz - 1]
         ELSE LET successor == _find_min_node(node.right)
                  r == _delete_recursive(node.right, successor.data, sz - 1)
              IN  [node |-> [node EXCEPT !.data = successor.data,
                                         !.right = r.node],
                   size |-> r.size]

\* BinarySearchTree.delete: the pair [node, size] and the returned boolean.
bst_delete(rt, data, sz) ==
    IF rt = None
      THEN [node |-> rt, size |-> sz, ret |-> FALSE]
      ELSE LET r == _delete_recursive(rt, data, sz)
           IN  [node |-> r.node, size |-> r.size, ret |-> TRUE]

\* float('-inf') and float('inf'), the bounds is_valid_bst starts from; a key
\* v used as a bound is Fin(v).
NegInf == [inf |-> "-"]
PosInf == [inf |-> "+"]
Fin(v) == [fin |-> v]

\* data <= bound and data >= bound for a bound that may be infinite.
LeqBound(data, bound) ==
    IF bound = NegInf THEN FALSE
    ELSE IF bound = PosInf THEN TRUE
    ELSE data <= bound.fin

GeqBound(data, bound) ==
    IF bound = PosInf THEN FALSE
    ELSE IF bound = NegInf THEN TRUE
    ELSE data >= bound.fin

\* BinarySearchTree._is_valid_bst_helper
RECURSIVE _is_valid_bst_helper(_, _, _)
_is_valid_bst_helper(node, min_val, max_val) ==
    IF node = None THEN TRUE
    ELSE IF LeqBound(node.data, min_val) \/ GeqBound(node.data, max_val)
      THEN FALSE
    ELSE /\ _is_valid_bst_helper(node.left, min_val, Fin(node.data))
         /\ _is_valid_bst_helper(node.right, Fin(node.data), max_val)

\* BinarySearchTree.is_valid_bst
is_valid_bst(rt) == _is_valid_bst_helper(rt, NegInf, PosInf)

\* ---------------------------------------------------------------- spec
Init ==
    /\ root = None
    /\ size = 0
    /\ op = "init"
    /\ arg = 0
    /\ ret = NoRet
    /\ prevRoot = None
    /\ prevSize = 0
    /\ stored = {}
    /\ nops = 0
    /\ obj = None
    /\ prevObj = None

\* tree.insert(k)
Insert(k) ==
    /\ nops < MaxOps
    /\ LET r == insert(root, k, size)
       IN  /\ root' = r.node
           /\ size' = r.size
    /\ op' = "insert"
    /\ arg' = k
    /\ ret' = NoRet
    /\ prevRoot' = root
    /\ prevSize' = size
    /\ stored' = stored \cup {k}
    /\ nops' = nops + 1
    /\ UNCHANGED <<obj, prevObj>>

\* tree.delete(k)
Delete(k) ==
    /\ nops < MaxOps
    /\ LET r == delete(root, k, size)
       IN  /\ root' = r.node
           /\ size' = r.size
           /\ ret' = r.ret
    /\ op' = "delete"
    /\ arg' = k
    /\ prevRoot' = root
    /\ prevSize' = size
    /\ stored' = stored \ {k}
    /\ nops' = nops + 1
    /\ UNCHANGED <<obj, prevObj>>

\* tree.search(k)
Search(k) ==
    /\ op' = "search"
    /\ arg' = k
    /\ ret' = search(root, k)
    /\ prevRoot' = root
    /\ prevSize' = size
    /\ UNCHANGED <<root, size, stored, nops, obj, prevObj>>

\* tree.inorder_traversal()
Inorder ==
    /\ op' = "inorder"
    /\ arg' = 0
    /\ ret' = inorder_traversal(root)
    /\ prevRoot' = root
    /\ prevSize' = size
    /\ UNCHANGED <<root, size, stored, nops, obj, prevObj>>

\* Mutant of FindMin: the minimum is taken out of the tree as it is returned.
FindMin_removes ==
    /\ op' = "find_min"
    /\ arg' = 0
    /\ ret' = find_min(root)
    /\ prevRoot' = root
    /\ prevSize' = size
    /\ LET r == delete(root, IF root = None THEN 0 ELSE find_min(root).value,
                       size)
       IN  /\ root' = r.node
           /\ size' = r.size
    /\ UNCHANGED <<stored, nops, obj, prevObj>>

\* tree.find_min()
FindMin ==
    /\ op' = "find_min"
    /\ arg' = 0
    /\ ret' = find_min(root)
    /\ prevRoot' = root
    /\ prevSize' = size
    /\ UNCHANGED <<root, size, stored, nops, obj, prevObj>>

\* tree.find_max()
FindMax ==
    /\ op' = "find_max"
    /\ arg' = 0
    /\ ret' = find_max(root)
    /\ prevRoot' = root
    /\ prevSize' = size
    /\ UNCHANGED <<root, size, stored, nops, obj, prevObj>>

\* tree.find_predecessor(k)
FindPredecessor(k) ==
    /\ op' = "find_predecessor"
    /\ arg' = k
    /\ ret' = find_predecessor(root, k)
    /\ prevRoot' = root
    /\ prevSize' = size
    /\ UNCHANGED <<root, size, stored, nops, obj, prevObj>>

\* tree.find_successor(k)
FindSuccessor(k) ==
    /\ op' = "find_successor"
    /\ arg' = k
    /\ ret' = find_successor(root, k)
    /\ prevRoot' = root
    /\ prevSize' = size
    /\ UNCHANGED <<root, size, stored, nops, obj, prevObj>>

\* tree.is_balanced()
IsBalanced ==
    /\ op' = "is_balanced"
    /\ arg' = 0
    /\ ret' = is_balanced(root)
    /\ prevRoot' = root
    /\ prevSize' = size
    /\ UNCHANGED <<root, size, stored, nops, obj, prevObj>>

\* tree.get_height()
GetHeight ==
    /\ op' = "get_height"
    /\ arg' = 0
    /\ ret' = get_height(root)
    /\ prevRoot' = root
    /\ prevSize' = size
    /\ UNCHANGED <<root, size, stored, nops, obj, prevObj>>

Next ==
    \/ \E k \in Keys : Insert(k)
    \/ \E k \in Keys : Delete(k)
    \/ \E k \in Keys : Search(k)
    \/ Inorder
    \/ FindMin
    \/ FindMax
    \/ \E k \in Keys : FindPredecessor(k)
    \/ \E k \in Keys : FindSuccessor(k)
    \/ IsBalanced
    \/ GetHeight

Spec == Init /\ [][Next]_vars

\* The ascending run of avl_tree_demo: a fresh tree, the keys 1, 2, ...,
\* AscLen inserted in that order, queries in between.
AscInsert ==
    /\ nops < AscLen
    /\ Insert(nops + 1)

NextAsc ==
    \/ AscInsert
    \/ \E k \in Keys : Search(k)
    \/ Inorder
    \/ FindMin
    \/ FindMax
    \/ \E k \in Keys : FindPredecessor(k)
    \/ \E k \in Keys : FindSuccessor(k)
    \/ IsBalanced
    \/ GetHeight

SpecAsc == Init /\ [][NextAsc]_vars

\* The unbalanced BinarySearchTree: bst = BinarySearchTree() starts empty as
\* Init says; the node created by the n-th call is numbered n.
\* bst.insert(k)
BstInsert(k) ==
    /\ nops < BstMaxOps
    /\ LET r == bst_insert(root, k, size, nops + 1)
       IN  /\ root' = r.node
           /\ size' = r.size
    /\ op' = "bst_insert"
    /\ arg' = k
    /\ ret' = NoRet
    /\ prevRoot' = root
    /\ prevSize' = size
    /\ stored' = stored \cup {k}
    /\ nops' = nops + 1
    /\ UNCHANGED <<obj, prevObj>>

\* bst.delete(k)
BstDelete(k) ==
    /\ nops < BstMaxOps
    /\ LET r == bst_delete(root, k, size)
       IN  /\ root' = r.node
           /\ size' = r.size
           /\ ret' = r.ret
    /\ op' = "bst_delete"
    /\ arg' = k
    /\ prevRoot' = root
    /\ prevSize' = size
    /\ stored' = stored \ {k}
    /\ nops' = nops + 1
    /\ UNCHANGED <<obj, prevObj>>

\* bst.is_valid_bst()
IsValidBst ==
    /\ op' = "is_valid_bst"
    /\ arg' = 0
    /\ ret' = is_valid_bst(root)
    /\ prevRoot' = root
    /\ prevSize' = size
    /\ UNCHANGED <<root, size, stored, nops, obj, prevObj>>

NextBst ==
    \/ \E k \in BstKeys : BstInsert(k)
    \/ \E k \in BstKeys : BstDelete(k)
    \/ \E k \in BstKeys : Search(k)
    \/ Inorder
    \/ IsValidBst

SpecBst == Init /\ [][NextBst]_vars

\* ================================================================ trie
\* Trie of src/trie/implementation.py.  A word is a sequence of one-letter
\* strings; the dict node.children is the sequence of its [key, node] items in
\* insertion order.  obj holds the fields root, word_count and total_words.
\* At most TrieMaxOps insert/delete calls are made, with words of TrieWords.
TrieMaxOps == 4

TrieWords ==
    {<<>>, <<"a">>, <<"A">>, <<"b">>, <<"a", "b">>, <<"a", "c">>}

TrieNode ==
    [children |-> <<>>, is_end_of_word |-> FALSE, word_count |-> 0,
     prefix_count |-> 0]

\* str.lower on one letter of the words used here
Lower(c) == IF c = "A" THEN "a" ELSE c

\* str.lower
lower(word) == [i \in 1..Len(word) |-> Lower(word[i])]

\* Position of the key char in node.children, 0 when char is not a key.
child_at(node, char) ==
    IF \E i \in 1..Len(node.children) : node.children[i].key = char
    THEN CHOOSE i \in 1..Len(node.children) : node.children[i].key = char
    ELSE 0

\* The loop of Trie.insert over word[i..], then the marking of the last node.
RECURSIVE insert_walk(_, _, _)
insert_walk(current, word, i) ==
    IF i > Len(word)
    THEN [current EXCEPT !.is_end_of_word = TRUE, !.word_count = @ + 1]
    ELSE LET char   == word[i]
             j      == child_at(current, char)
             child  == IF j = 0 THEN TrieNode ELSE current.children[j].node
             walked == insert_walk([child EXCEPT !.prefix_count = @ + 1],
                                   word, i + 1)
         IN  IF j = 0
             THEN [current EXCEPT !.children =
                       Append(@, [key |-> char, node |-> walked])]
             ELSE [current EXCEPT !.children[j].node = walked]

\* The loop of Trie._find_node over word[i..].
RECURSIVE find_walk(_, _, _)
find_walk(current, word, i) ==
    IF i > Len(word) THEN current
    ELSE LET j == child_at(current, word[i])
         IN  IF j = 0 THEN None
             ELSE find_walk(current.children[j].node, word, i + 1)

\* Trie._find_node
_find_node(t, word) == find_walk(t.root, lower(word), 1)

\* Trie.search
trie_search(t, word) ==
    LET node == _find_node(t, word)
    IN  node # None /\ node.is_end_of_word

\* Trie.insert
trie_insert(t, word) ==
    IF Len(word) = 0 THEN t
    ELSE [root        |-> insert_walk(t.root, lower(word), 1),
          word_count  |-> IF trie_search(t, word) THEN t.word_count
                          ELSE t.word_count + 1,
          total_words |-> t.total_words + 1]

\* d with its i-th item deleted (del d[key])
DelAt(d, i) == SubSeq(d, 1, i - 1) \o SubSeq(d, i + 1, Len(d))

\* _delete_helper of Trie.delete; index counts from 1 here.  The result is
\* the node as the call leaves it and the value the call returns.
RECURSIVE _delete_helper(_, _, _)
_delete_helper(node, word, index) ==
    IF index = Len(word) + 1
    THEN IF ~node.is_end_of_word THEN [node |-> node, ret |-> FALSE]
         ELSE [node |-> [node EXCEPT !.is_end_of_word = FALSE,
                                     !.word_count = 0],
               ret  |-> Len(node.children) = 0]
    ELSE LET char == Lower(word[index])
             j    == child_at(node, char)
         IN  IF j = 0 THEN [node |-> node, ret |-> FALSE]
             ELSE LET r    == _delete_helper(node.children[j].node, word,
                                             index + 1)
                      kept == [node EXCEPT !.children[j].node = r.node]
                      cut  == [node EXCEPT !.children = DelAt(@, j)]
                  IN  IF r.ret
                      THEN [node |-> cut,
                            ret  |-> ~cut.is_end_of_word
                                     /\ Len(cut.children) = 0]
                      ELSE [node |-> kept, ret |-> FALSE]

\* Trie.delete: the trie it leaves and the value it returns.
trie_delete(t, word) ==
    IF Len(word) = 0 \/ ~trie_search(t, word) THEN [trie |-> t, ret |-> FALSE]
    ELSE LET r     == _delete_helper(t.root, word, 1)
             after == [t EXCEPT !.root = r.node]
         IN  IF r.ret \/ trie_search(after, word) # TRUE
             THEN [trie |-> [after EXCEPT !.word_count = @ - 1],
                   ret  |-> TRUE]
             ELSE [trie |-> after, ret |-> FALSE]

\* _dfs of Trie.get_words_with_prefix: the words appended by _dfs(node,
\* current_word), and by the loop over the items i.. of node.children.
RECURSIVE _dfs(_, _)
RECURSIVE dfs_children(_, _, _)
_dfs(node, current_word) ==
    (IF node.is_end_of_word THEN <<current_word>> ELSE <<>>)
        \o dfs_children(node, current_word, 1)

dfs_children(node, current_word, i) ==
    IF i > Len(node.children) THEN <<>>
    ELSE _dfs(node.children[i].node,
              Append(current_word, node.children[i].key))
             \o dfs_children(node, current_word, i + 1)

\* Trie.get_words_with_prefix
get_words_with_prefix(t, prefix) ==
    LET prefix_node == _find_node(t, prefix)
    IN  IF prefix_node = None THEN <<>>
        ELSE _dfs(prefix_node, lower(prefix))

\* Trie.count_words_with_prefix
count_words_with_prefix(t, prefix) ==
    LET prefix_node == _find_node(t, prefix)
    IN  IF prefix_node = None THEN 0 ELSE prefix_node.prefix_count

\* trie = Trie()
TrieIdle == UNCHANGED <<root, size, prevRoot, prevSize>>

InitTrie ==
    /\ root = None
    /\ size = 0
    /\ op = "init"
    /\ arg = <<>>
    /\ ret = NoRet
    /\ prevRoot = None
    /\ prevSize = 0
    /\ stored = {}
    /\ nops = 0
    /\ obj = [root |-> TrieNode, word_count |-> 0, total_words |-> 0]
    /\ prevObj = None

\* trie.insert(w)
TrieInsert(w) ==
    /\ nops < TrieMaxOps
    /\ obj' = trie_insert(obj, w)
    /\ op' = "trie_insert"
    /\ arg' = w
    /\ ret' = NoRet
    /\ prevObj' = obj
    /\ stored' = IF Len(w) = 0 THEN stored ELSE stored \cup {lower(w)}
    /\ nops' = nops + 1
    /\ TrieIdle

\* trie.delete(w)
TrieDelete(w) ==
    /\ nops < TrieMaxOps
    /\ LET r == trie_delete(obj, w)
       IN  /\ obj' = r.trie
           /\ ret' = r.ret
    /\ op' = "trie_delete"
    /\ arg' = w
    /\ prevObj' = obj
    /\ stored' = stored \ {lower(w)}
    /\ nops' = nops + 1
    /\ TrieIdle

\* trie.count_words_with_prefix(p)
CountWordsWithPrefix(p) ==
    /\ op' = "count_words_with_prefix"
    /\ arg' = p
    /\ ret' = count_words_with_prefix(obj, p)
    /\ prevObj' = obj
    /\ UNCHANGED <<obj, stored, nops>>
    /\ TrieIdle

\* trie.get_words_with_prefix(p)
GetWordsWithPrefix(p) ==
    /\ op' = "get_words_with_prefix"
    /\ arg' = p
    /\ ret' = get_words_with_prefix(obj, p)
    /\ prevObj' = obj
    /\ UNCHANGED <<obj, stored, nops>>
    /\ TrieIdle

NextTrie ==
    \/ \E w \in TrieWords : TrieInsert(w)
    \/ \E w \in TrieWords : TrieDelete(w)
    \/ \E p \in TrieWords : CountWordsWithPrefix(p)
    \/ \E p \in TrieWords : GetWordsWithPrefix(p)

SpecTrie == InitTrie /\ [][NextTrie]_vars

\* ================================================================ graph
\* Graph of src/graph/implementation.py, built with directed = False.  obj
\* holds the fields vertices (a function from vertex data to GraphNode),
\* edges (a function from ordered pairs to weights) and directed; a
\* GraphNode's neighbors are given by their data, which is what GraphNode
\* hashes and compares by.  Vertex data are drawn from 1..GraphMaxVertex.
GraphMaxVertex == 3

GraphVertices == 1..GraphMaxVertex

\* Default weight of add_edge (1.0).
DefaultWeight == 1

GraphNode(data) == [data |-> data, neighbors |-> {}, visited |-> FALSE]

\* d[k] = v on a dict d
DictSet(d, k, v) == [x \in DOMAIN d \cup {k} |-> IF x = k THEN v ELSE d[x]]

\* d without the keys of ks
DictDel(d, ks) == [x \in DOMAIN d \ ks |-> d[x]]

\* Graph.add_vertex: the graph it leaves and the value it returns.
add_vertex(g, data) ==
    IF data \in DOMAIN g.vertices THEN [graph |-> g, ret |-> FALSE]
    ELSE [graph |-> [g EXCEPT !.vertices = DictSet(@, data, GraphNode(data))],
          ret   |-> TRUE]

\* Graph.add_edge
add_edge(g, from_vertex, to_vertex, weight) ==
    IF from_vertex \notin DOMAIN g.vertices
           \/ to_vertex \notin DOMAIN g.vertices
    THEN [graph |-> g, ret |-> FALSE]
    ELSE LET g1 == [g EXCEPT
                       !.vertices[from_vertex].neighbors = @ \cup {to_vertex},
                       !.edges = DictSet(@, <<from_vertex, to_vertex>>, weight)]
             g2 == [g1 EXCEPT
                       !.vertices[to_vertex].neighbors = @ \cup {from_vertex},
                       !.edges = DictSet(@, <<to_vertex, from_vertex>>, weight)]
         IN  [graph |-> IF ~g.directed THEN g2 ELSE g1, ret |-> TRUE]

\* Graph.remove_edge
remove_edge(g, from_vertex, to_vertex) ==
    IF <<from_vertex, to_vertex>> \notin DOMAIN g.edges
    THEN [graph |-> g, ret |-> FALSE]
    ELSE LET g1 == [g EXCEPT
                       !.vertices[from_vertex].neighbors = @ \ {to_vertex},
                       !.edges = DictDel(@, {<<from_vertex, to_vertex>>})]
             g2 == [g1 EXCEPT
                       !.vertices[to_vertex].neighbors = @ \ {from_vertex},
                       !.edges = DictDel(@, {<<to_vertex, from_vertex>>})]
         IN  [graph |-> IF ~g.directed THEN g2 ELSE g1, ret |-> TRUE]

\* Graph.remove_vertex.  The loop over vertex.neighbors discards the vertex
\* from each neighbour's set; when the vertex is its own neighbour this
\* changes the set being iterated and the next step of the loop raises
\* RuntimeError, after the edges were deleted and before the vertex is.
\* first is the set of neighbours the loop reached before the vertex itself,
\* which the iteration order of the set decides.
remove_vertex(g, data, first) ==
    IF data \notin DOMAIN g.vertices THEN [graph |-> g, ret |-> Returned(FALSE)]
    ELSE LET edges_to_remove ==
                 {edge \in DOMAIN g.edges : edge[1] = data \/ edge[2] = data}
             g1 == [g EXCEPT !.edges = DictDel(@, edges_to_remove)]
             reached == IF data \in g.vertices[data].neighbors
                        THEN first \cup {data}
                        ELSE g.vertices[data].neighbors
             g2 == [g1 EXCEPT !.vertices =
                       [x \in DOMAIN @ |->
                           IF x \in reached
                           THEN [@[x] EXCEPT !.neighbors = @ \ {data}]
                           ELSE @[x]]]
             g3 == [g2 EXCEPT !.vertices =
                       [x \in DOMAIN @ |->
                           [@[x] EXCEPT !.neighbors = @ \ {data}]]]
         IN  IF data \in g.vertices[data].neighbors
             THEN [graph |-> g2, ret |-> Raised("RuntimeError")]
             ELSE [graph |-> [g3 EXCEPT !.vertices = DictDel(@, {data})],
                   ret   |-> Returned(TRUE)]

\* Graph.has_edge
has_edge(g, from_vertex, to_vertex) ==
    <<from_vertex, to_vertex>> \in DOMAIN g.edges

\* Graph.edge_count
edge_count(g) ==
    IF g.directed THEN Cardinality(DOMAIN g.edges)
    ELSE Cardinality(DOMAIN g.edges) \div 2

\* graph = Graph()
InitGraph ==
    /\ root = None
    /\ size = 0
    /\ op = "init"
    /\ arg = <<>>
    /\ ret = NoRet
    /\ prevRoot = None
    /\ prevSize = 0
    /\ stored = {}
    /\ nops = 0
    /\ obj = [vertices |-> <<>>, edges |-> <<>>, directed |-> FALSE]
    /\ prevObj = None

GraphIdle == UNCHANGED <<root, size, prevRoot, prevSize, stored, nops>>

\* graph.add_vertex(v)
AddVertex(v) ==
    /\ LET r == add_vertex(obj, v)
       IN  /\ obj' = r.graph
           /\ ret' = r.ret
    /\ op' = "add_vertex"
    /\ arg' = <<v>>
    /\ prevObj' = obj
    /\ GraphIdle

\* graph.add_edge(u, v)
AddEdge(u, v) ==
    /\ LET r == add_edge(obj, u, v, DefaultWeight)
       IN  /\ obj' = r.graph
           /\ ret' = r.ret
    /\ op' = "add_edge"
    /\ arg' = <<u, v>>
    /\ prevObj' = obj
    /\ GraphIdle

\* graph.remove_edge(u, v)
RemoveEdge(u, v) ==
    /\ LET r == remove_edge(obj, u, v)
       IN  /\ obj' = r.graph
           /\ ret' = r.ret
    /\ op' = "remove_edge"
    /\ arg' = <<u, v>>
    /\ prevObj' = obj
    /\ GraphIdle

\* graph.remove_vertex(v)
RemoveVertex(v) ==
    /\ \E first \in SUBSET (IF v \in DOMAIN obj.vertices
                            THEN obj.vertices[v].neighbors \ {v} ELSE {}) :
          LET r == remove_vertex(obj, v, first)
          IN  /\ obj' = r.graph
              /\ ret' = r.ret
    /\ op' = "remove_vertex"
    /\ arg' = <<v>>
    /\ prevObj' = obj
    /\ GraphIdle

\* graph.has_edge(u, v)
HasEdge(u, v) ==
    /\ op' = "has_edge"
    /\ arg' = <<u, v>>
    /\ ret' = has_edge(obj, u, v)
    /\ prevObj' = obj
    /\ UNCHANGED obj
    /\ GraphIdle

\* graph.edge_count()
EdgeCount ==
    /\ op' = "edge_count"
    /\ arg' = <<>>
    /\ ret' = edge_count(obj)
    /\ prevObj' = obj
    /\ UNCHANGED obj
    /\ GraphIdle

NextGraph ==
    \/ \E v \in GraphVertices : AddVertex(v)
    \/ \E u, v \in GraphVertices : AddEdge(u, v)
    \/ \E u, v \in GraphVertices : RemoveEdge(u, v)
    \/ \E v \in GraphVertices : RemoveVertex(v)
    \/ \E u, v \in GraphVertices : HasEdge(u, v)
    \/ EdgeCount

SpecGraph == InitGraph /\ [][NextGraph]_vars

\* ================================================================ queue
\* CircularQueue of src/queue/implementation.py.  obj holds the fields
\* _capacity, _items, _front, _rear and _size; _items is a sequence, so the
\* slot of index i is _items[i + 1].  Capacities are drawn from
\* 1..QueueMaxCapacity and at most QueueMaxOps enqueue calls are made; the
\* n-th enqueue call enqueues the item n, as the circular queue test numbers
\* its items.
QueueMaxCapacity == 3
QueueMaxOps == 7

\* CircularQueue.__init__ (capacity > 0)
CircularQueue(capacity) ==
    [_capacity |-> capacity,
     _items    |-> [i \in 1..capacity |-> None],
     _front    |-> 0,
     _rear     |-> -1,
     _size     |-> 0]

\* CircularQueue.is_empty
queue_is_empty(q) == q._size = 0

\* CircularQueue.is_full
is_full(q) == q._size = q._capacity

\* CircularQueue.size
queue_size(q) == q._size

\* CircularQueue.enqueue: the queue it leaves and its outcome.
enqueue(q, item) ==
    IF is_full(q) THEN [queue |-> q, ret |-> Raised("QueueFullError")]
    ELSE LET rear == (q._rear + 1) % q._capacity
         IN  [queue |-> [q EXCEPT !._rear = rear,
                                  !._items[rear + 1] = item,
                                  !._size = @ + 1],
              ret   |-> None]

\* Mutant of dequeue: the item is taken from the rear.
dequeue_from_rear(q) ==
    IF queue_is_empty(q) THEN [queue |-> q, ret |-> Raised("QueueEmptyError")]
    ELSE [queue |-> [q EXCEPT !._items[q._rear + 1] = None,
                              !._rear = (q._rear + q._capacity - 1)
                                            % q._capacity,
                              !._size = @ - 1],
          ret   |-> Returned(q._items[q._rear + 1])]

\* CircularQueue.dequeue
dequeue(q) ==
    IF queue_is_empty(q) THEN [queue |-> q, ret |-> Raised("QueueEmptyError")]
    ELSE [queue |-> [q EXCEPT !._items[q._front + 1] = None,
                              !._front = (q._front + 1) % q._capacity,
                              !._size = @ - 1],
          ret   |-> Returned(q._items[q._front + 1])]

\* CircularQueue.to_list
to_list(q) ==
    IF queue_is_empty(q) THEN <<>>
    ELSE [k \in 1..q._size |->
             q._items[((q._front + k - 1) % q._capacity) + 1]]

\* cq = CircularQueue(c).  stored is the history: the items enqueued so far,
\* in order, and how many of them were dequeued.
InitQueue ==
    /\ root = None
    /\ size = 0
    /\ op = "init"
    /\ arg = 0
    /\ ret = NoRet
    /\ prevRoot = None
    /\ prevSize = 0
    /\ stored = [enqueued |-> <<>>, dequeued |-> 0]
    /\ nops = 0
    /\ \E c \in 1..QueueMaxCapacity : obj = CircularQueue(c)
    /\ prevObj = None

QueueIdle == UNCHANGED <<root, size, prevRoot, prevSize>>

\* The items enqueued and not yet dequeued, oldest first.
Fifo ==
    SubSeq(stored.enqueued, stored.dequeued + 1, Len(stored.enqueued))

\* cq.enqueue(n), n the number of this enqueue call
Enqueue ==
    /\ nops < QueueMaxOps
    /\ LET r == enqueue(obj, nops + 1)
       IN  /\ obj' = r.queue
           /\ ret' = r.ret
    /\ op' = "enqueue"
    /\ arg' = nops + 1
    /\ prevObj' = obj
    /\ stored' = IF Len(Fifo) < obj._capacity
                 THEN [stored EXCEPT !.enqueued = Append(@, nops + 1)]
                 ELSE stored
    /\ nops' = nops + 1
    /\ QueueIdle

\* cq.dequeue()
Dequeue ==
    /\ LET r == dequeue(obj)
       IN  /\ obj' = r.queue
           /\ ret' = r.ret
    /\ op' = "dequeue"
    /\ arg' = 0
    /\ prevObj' = obj
    /\ stored' = IF Len(Fifo) > 0
                 THEN [stored EXCEPT !.dequeued = @ + 1]
                 ELSE stored
    /\ UNCHANGED nops
    /\ QueueIdle

\* cq.to_list()
ToList ==
    /\ op' = "to_list"
    /\ arg' = 0
    /\ ret' = to_list(obj)
    /\ prevObj' = obj
    /\ UNCHANGED <<obj, stored, nops>>
    /\ QueueIdle

\* cq.size()
QueueSize ==
    /\ op' = "size"
    /\ arg' = 0
    /\ ret' = queue_size(obj)
    /\ prevObj' = obj
    /\ UNCHANGED <<obj, stored, nops>>
    /\ QueueIdle

NextQueue ==
    \/ Enqueue
    \/ Dequeue
    \/ ToList
    \/ QueueSize

SpecQueue == InitQueue /\ [][NextQueue]_vars

\* ================================================================ heap
\* MinHeap of src/heap/implementation.py.  obj holds the field _heap, a
\* sequence, so the element of index i is _heap[i + 1].  Elements are drawn
\* from 1..HeapMaxValue, the initial list has at most HeapMaxInit elements
\* and the heap is grown to at most HeapMaxLen.
HeapMaxValue == 4
HeapMaxInit == 4
HeapMaxLen == 6

HeapValues == 1..HeapMaxValue

_parent(index) == (index - 1) \div 2

_left_child(index) == 2 * index + 1

_right_child(index) == 2 * index + 2

_has_left_child(heap, index) == _left_child(index) < Len(heap)

_has_right_child(heap, index) == _right_child(index) < Len(heap)

_has_parent(index) == _parent(index) >= 0

_swap(heap, i, j) ==
    [heap EXCEPT ![i + 1] = heap[j + 1], ![j + 1] = heap[i + 1]]

RECURSIVE _heapify_up(_, _)
_heapify_up(heap, index) ==
    IF _has_parent(index) /\ heap[_parent(index) + 1] > heap[index + 1]
    THEN _heapify_up(_swap(heap, index, _parent(index)), _parent(index))
    ELSE heap

\* Mutant of _heapify_down: the left child is taken for the smaller one.
RECURSIVE _heapify_down_left_only(_, _)
_heapify_down_left_only(heap, index) ==
    IF ~_has_left_child(heap, index) THEN heap
    ELSE LET smaller_child_index == _left_child(index)
         IN  IF heap[index + 1] <= heap[smaller_child_index + 1] THEN heap
             ELSE _heapify_down_left_only(
                      _swap(heap, index, smaller_child_index),
                      smaller_child_index)

RECURSIVE _heapify_down(_, _)
_heapify_down(heap, index) ==
    IF ~_has_left_child(heap, index) THEN heap
    ELSE LET smaller_child_index ==
                 IF _has_right_child(heap, index)
                        /\ heap[_right_child(index) + 1]
                               < heap[_left_child(index) + 1]
                 THEN _right_child(index)
                 ELSE _left_child(index)
         IN  IF heap[index + 1] <= heap[smaller_child_index + 1] THEN heap
             ELSE _heapify_down(_swap(heap, index, smaller_child_index),
                                smaller_child_index)

\* The loop of _build_heap from index i down to 0.
RECURSIVE build_from(_, _)
build_from(heap, i) ==
    IF i < 0 THEN heap ELSE build_from(_heapify_down(heap, i), i - 1)

_build_heap(heap) == build_from(heap, Len(heap) \div 2 - 1)

\* MinHeap.__init__
MinHeap(initial_data) ==
    [_heap |-> IF Len(initial_data) > 0 THEN _build_heap(initial_data)
               ELSE <<>>]

\* list.pop(): the list without its last element
Pop(heap) == SubSeq(heap, 1, Len(heap) - 1)

\* MinHeap.insert
heap_insert(h, item) ==
    [h EXCEPT !._heap = _heapify_up(Append(@, item), Len(@))]

\* MinHeap.extract_min: the heap it leaves and its outcome.
extract_min(h) ==
    IF Len(h._heap) = 0 THEN [heap |-> h, ret |-> Raised("IndexError")]
    ELSE IF Len(h._heap) = 1
      THEN [heap |-> [h EXCEPT !._heap = Pop(@)],
            ret  |-> Returned(h._heap[Len(h._heap)])]
    ELSE LET min_item == h._heap[1]
             last     == h._heap[Len(h._heap)]
             moved    == [Pop(h._heap) EXCEPT ![1] = last]
         IN  [heap |-> [h EXCEPT !._heap = _heapify_down(moved, 0)],
              ret  |-> Returned(min_item)]

\* MinHeap.peek_min
peek_min(h) ==
    IF Len(h._heap) = 0 THEN Raised("IndexError") ELSE Returned(h._heap[1])

\* MinHeap.heap_sort: the loop, given the list built so far.
RECURSIVE heap_sort_loop(_, _)
heap_sort_loop(h, sorted_list) ==
    IF Len(h._heap) = 0 THEN [heap |-> h, ret |-> sorted_list]
    ELSE LET r == extract_min(h)
         IN  heap_sort_loop(r.heap, Append(sorted_list, r.ret.value))

heap_sort(h) == heap_sort_loop(h, <<>>)

\* The lists of at most n elements.
RECURSIVE ListsUpTo(_)
ListsUpTo(n) ==
    IF n = 0 THEN {<<>>}
    ELSE ListsUpTo(n - 1)
             \cup {Append(l, v) : l \in {x \in ListsUpTo(n - 1) : Len(x) = n - 1},
                                  v \in HeapValues}

\* The number of occurrences of each value in a list.
Counts(list) ==
    [v \in HeapValues |-> Cardinality({i \in 1..Len(list) : list[i] = v})]

\* min_heap = MinHeap(initial_data).  stored is the history: how many of each
\* value were put in and not taken out.
InitHeap ==
    /\ root = None
    /\ size = 0
    /\ op = "init"
    /\ arg = 0
    /\ ret = NoRet
    /\ prevRoot = None
    /\ prevSize = 0
    /\ nops = 0
    /\ \E initial_data \in ListsUpTo(HeapMaxInit) :
          /\ obj = MinHeap(initial_data)
          /\ stored = Counts(initial_data)
    /\ prevObj = None

HeapIdle == UNCHANGED <<root, size, prevRoot, prevSize, nops>>

\* The least value the history holds (0 when it holds none).
LeastStored ==
    IF \A v \in HeapValues : stored[v] = 0 THEN 0
    ELSE CHOOSE v \in HeapValues :
             stored[v] > 0 /\ \A u \in HeapValues : stored[u] > 0 => v <= u

\* min_heap.insert(x)
HeapInsert(x) ==
    /\ Len(obj._heap) < HeapMaxLen
    /\ obj' = heap_insert(obj, x)
    /\ op' = "heap_insert"
    /\ arg' = x
    /\ ret' = NoRet
    /\ prevObj' = obj
    /\ stored' = [stored EXCEPT ![x] = @ + 1]
    /\ HeapIdle

\* min_heap.extract_min()
ExtractMin ==
    /\ LET r == extract_min(obj)
       IN  /\ obj' = r.heap
           /\ ret' = r.ret
    /\ op' = "extract_min"
    /\ arg' = 0
    /\ prevObj' = obj
    /\ stored' = IF LeastStored = 0 THEN stored
                 ELSE [stored EXCEPT ![LeastStored] = @ - 1]
    /\ HeapIdle

\* min_heap.peek_min()
PeekMin ==
    /\ op' = "peek_min"
    /\ arg' = 0
    /\ ret' = peek_min(obj)
    /\ prevObj' = obj
    /\ UNCHANGED <<obj, stored>>
    /\ HeapIdle

\* min_heap.heap_sort()
HeapSort ==
    /\ LET r == heap_sort(obj)
       IN  /\ obj' = r.heap
           /\ ret' = r.ret
    /\ op' = "heap_sort"
    /\ arg' = 0
    /\ prevObj' = obj
    /\ stored' = [v \in HeapValues |-> 0]
    /\ HeapIdle

NextHeap ==
    \/ \E x \in HeapValues : HeapInsert(x)
    \/ ExtractMin
    \/ PeekMin
    \/ HeapSort

SpecHeap == InitHeap /\ [][NextHeap]_vars

\* ================================================================ search
\* interpolation_search of src/algorithms/implementation.py.  obj holds the
\* arguments arr and target.  The lists are the non-decreasing lists of at
\* most InterpMaxLen values of 0..InterpMaxValue, the targets the integers
\* from one below to one above these values.
InterpMaxValue == 4
InterpMaxLen == 4

InterpValues == 0..InterpMaxValue

InterpTargets == (0 - 1)..(InterpMaxValue + 1)

\* The non-decreasing lists of at most n values.
RECURSIVE SortedLists(_)
SortedLists(n) ==
    IF n = 0 THEN {<<>>}
    ELSE LET shorter == SortedLists(n - 1)
             longest == {x \in shorter : Len(x) = n - 1}
         IN  shorter \cup
                 {Append(pair[1], pair[2]) :
                     pair \in {p \in longest \X InterpValues :
                                  Len(p[1]) = 0 \/ p[1][Len(p[1])] <= p[2]}}

\* The while loop of interpolation_search; arr[i] of the code is arr[i + 1].
\* The floor division raises ZeroDivisionError when its divisor is 0.
RECURSIVE interpolation_loop(_, _, _, _)
interpolation_loop(arr, target, left, right) ==
    IF ~(left <= right /\ target >= arr[left + 1] /\ target <= arr[right + 1])
    THEN Returned(-1)
    ELSE IF left = right
      THEN IF arr[left + 1] = target THEN Returned(left) ELSE Returned(-1)
    ELSE IF arr[right + 1] - arr[left + 1] = 0
      THEN Raised("ZeroDivisionError")
    ELSE LET pos == left + ((target - arr[left + 1]) * (right - left))
                               \div (arr[right + 1] - arr[left + 1])
         IN  IF arr[pos + 1] = target THEN Returned(pos)
             ELSE IF arr[pos + 1] < target
               THEN interpolation_loop(arr, target, pos + 1, right)
             ELSE interpolation_loop(arr, target, left, pos - 1)

interpolation_search(arr, target) ==
    interpolation_loop(arr, target, 0, Len(arr) - 1)

\* The arguments of one call.
InitInterp ==
    /\ root = None
    /\ size = 0
    /\ op = "init"
    /\ arg = 0
    /\ ret = NoRet
    /\ prevRoot = None
    /\ prevSize = 0
    /\ stored = {}
    /\ nops = 0
    /\ \E arr \in SortedLists(InterpMaxLen), target \in InterpTargets :
          obj = [arr |-> arr, target |-> target]
    /\ prevObj = None

\* interpolation_search(arr, target)
InterpolationSearch ==
    /\ op = "init"
    /\ op' = "interpolation_search"
    /\ ret' = interpolation_search(obj.arr, obj.target)
    /\ UNCHANGED <<root, size, arg, prevRoot, prevSize, stored, nops, obj,
                   prevObj>>

NextInterp == InterpolationSearch

SpecInterp == InitInterp /\ [][NextInterp]_vars

\* ================================================================ properties
\* Reference definitions, computed from the shape of a tree alone.

\* True height of a subtree: 0 for an empty subtree, 1 for a leaf.
RECURSIVE TrueHeight(_)
TrueHeight(n) ==
    IF n = None THEN 0 ELSE 1 + Max(TrueHeight(n.left), TrueHeight(n.right))

\* The nodes reachable from n, each as the subtree it roots.
RECURSIVE Nodes(_)
Nodes(n) ==
    IF n = None THEN {} ELSE {n} \cup Nodes(n.left) \cup Nodes(n.right)

\* The keys held by the nodes reachable from n.
KeysOf(n) == {m.data : m \in Nodes(n)}

\* Number of nodes reachable from n (duplicates of a key counted).
RECURSIVE CountNodes(_)
CountNodes(n) ==
    IF n = None THEN 0 ELSE 1 + CountNodes(n.left) + CountNodes(n.right)

Abs(i) == IF i < 0 THEN -i ELSE i

\* The strictly ascending sequence of the elements of a finite set of integers.
RECURSIVE SortedSeq(_)
SortedSeq(S) ==
    IF S = {} THEN <<>>
    ELSE LET m == CHOOSE x \in S : \A y \in S : x <= y
         IN  <<m>> \o SortedSeq(S \ {m})

\* The last call was a delete/insert of a key the tree held / did not hold.
DeletedPresent == op = "delete" /\ arg \in KeysOf(prevRoot)
DeletedAbsent  == op = "delete" /\ arg \notin KeysOf(prevRoot)
InsertedDuplicate == op = "insert" /\ arg \in KeysOf(prevRoot)

\* The last call was a delete below the root that changed the key at the root
\* of a tree of height 3: the root was rotated on the way back up.
DeleteRotatedRoot ==
    /\ op = "delete"
    /\ ret = TRUE
    /\ TrueHeight(prevRoot) = 3
    /\ arg # prevRoot.data
    /\ root.data # prevRoot.data

\* C1: after every insert and delete, every node reachable from root has true
\* subtree heights of its two children that differ by at most 1.
C1_AVLBalance ==
    \A n \in Nodes(root) : Abs(TrueHeight(n.left) - TrueHeight(n.right)) <= 1

C1_Witness ==
    /\ DeleteRotatedRoot
    /\ CountNodes(root) >= 4

\* C2: after every insert and delete, at every node all keys of the left
\* subtree are strictly smaller and all keys of the right subtree strictly
\* greater than the node's key.
C2_BSTOrder ==
    \A n \in Nodes(root) :
        /\ \A k \in KeysOf(n.left)  : k < n.data
        /\ \A k \in KeysOf(n.right) : k > n.data

\* A node with two children whose right child has a left child was deleted.
C2_Witness ==
    /\ DeletedPresent
    /\ \E n \in Nodes(prevRoot) :
        /\ n.data = arg
        /\ n.left # None
        /\ n.right # None
        /\ n.right.left # None

\* C3: after every insert and delete, get_size() equals the number of nodes
\* reachable from root, and a delete changes it by -1 when the key was present
\* and by 0 when it was absent.
C3_SizeIsNodeCount ==
    /\ get_size(size) = CountNodes(root)
    /\ DeletedPresent => get_size(size) = get_size(prevSize) - 1
    /\ DeletedAbsent  => get_size(size) = get_size(prevSize)

\* C4: after every insert and delete, the height field of every node equals
\* 1 + max of the height fields of its children, 0 for an absent child.
C4_CachedHeight ==
    \A n \in Nodes(root) :
        n.height = 1 + Max(_get_height(n.left), _get_height(n.right))

\* An insert ended with a right rotation at the root: the root's key is now
\* the key of the former left child.
C4_Witness ==
    /\ op = "insert"
    /\ prevRoot # None
    /\ prevRoot.left # None
    /\ root.data = prevRoot.left.data
    /\ CountNodes(root) >= 4

\* C5: deleting a stored key k leaves exactly the other keys: search(k) is
\* False and search(j) is True for every other key j stored before.
C5_DeleteSetSemantics ==
    DeletedPresent =>
        /\ KeysOf(root) = KeysOf(prevRoot) \ {arg}
        /\ ~search(root, arg)
        /\ \A j \in KeysOf(prevRoot) \ {arg} : search(root, j)

\* The key at the root was deleted while the root had two children.
C5_Witness ==
    /\ DeletedPresent
    /\ arg = prevRoot.data
    /\ prevRoot.left # None
    /\ prevRoot.right # None
    /\ CountNodes(prevRoot) >= 4

\* C6: delete(k) returns True exactly when k was stored before the call.
C6_DeleteReturn ==
    op = "delete" => (ret = TRUE <=> arg \in KeysOf(prevRoot))

\* delete returned False on a tree of three or more keys.
C6_Witness ==
    /\ op = "delete"
    /\ ret = FALSE
    /\ CountNodes(prevRoot) >= 3

\* C7: delete of a key that is not stored returns False and leaves root (all
\* keys, links and height fields) and size unchanged.
C7_DeleteAbsentNoOp ==
    DeletedAbsent =>
        /\ ret = FALSE
        /\ root = prevRoot
        /\ size = prevSize

\* The absent key was looked for below a node with a single child.
C7_Witness ==
    /\ DeletedAbsent
    /\ TrueHeight(prevRoot) = 3
    /\ \E n \in Nodes(prevRoot) : _get_balance(n) # 0 /\ n # prevRoot

\* C8: insert of a key already stored leaves the tree (keys, links, heights),
\* size and in-order traversal as they were.
C8_InsertDuplicateNoOp ==
    InsertedDuplicate =>
        /\ root = prevRoot
        /\ size = prevSize
        /\ inorder_traversal(root) = inorder_traversal(prevRoot)

\* The duplicate is a key below the root of a tree that is not perfect.
C8_Witness ==
    /\ InsertedDuplicate
    /\ arg # prevRoot.data
    /\ TrueHeight(prevRoot) = 3
    /\ \E n \in Nodes(prevRoot) : _get_balance(n) # 0

\* C9: inorder_traversal() is the strictly ascending sequence of the keys
\* inserted and not deleted since, each exactly once.
C9_InorderSorted ==
    op = "inorder" => ret = SortedSeq(stored)

\* The traversal of four keys left after deletes or repeated inserts.
C9_Witness ==
    /\ op = "inorder"
    /\ Len(ret) = 4
    /\ nops >= 6

\* C10: search(k) returns True exactly when k was inserted and not deleted
\* since.
C10_SearchMembership ==
    op = "search" => (ret = TRUE <=> arg \in stored)

\* A search found a key that is not at the root, after deletes or repeated
\* inserts.
C10_Witness ==
    /\ op = "search"
    /\ ret = TRUE
    /\ arg # root.data
    /\ nops > Cardinality(stored)

\* The smallest / largest element of a non-empty finite set of integers.
MinOf(S) == CHOOSE x \in S : \A y \in S : x <= y
MaxOf(S) == CHOOSE x \in S : \A y \in S : x >= y

\* C11: on a non-empty tree find_min() returns the smallest stored key and
\* find_max() the largest.
C11_MinMax ==
    stored # {} =>
        /\ op = "find_min" => ret = Returned(MinOf(stored))
        /\ op = "find_max" => ret = Returned(MaxOf(stored))

\* find_min answered on a tree of height 3 after a delete had changed it.
C11_Witness ==
    /\ op = "find_min"
    /\ TrueHeight(root) = 3
    /\ ret = Returned(MinOf(stored))
    /\ ret # Returned(root.data)
    /\ nops > Cardinality(stored)

\* C12: on a tree with no elements find_min() and find_max() return None,
\* search(k) and delete(k) return False, and the tree stays empty with size 0.
C12_EmptyBoundary ==
    (prevRoot = None /\ op \in {"find_min", "find_max", "search", "delete"}) =>
        /\ op \in {"find_min", "find_max"} => ret = None
        /\ op \in {"search", "delete"} => ret = FALSE
        /\ root = None
        /\ get_size(size) = 0

\* Largest integer h with h <= 1.44 * log2(n + 2) - 1, that is with
\* 2^((h + 1) / 1.44) <= n + 2: the thresholds are n + 2 >= 2, 3, 5, 7, 12, 18.
HeightBound(n) ==
    CASE n = 0         -> 0
      [] n \in 1..2    -> 1
      [] n \in 3..4    -> 2
      [] n \in 5..9    -> 3
      [] n \in 10..15  -> 4

\* Every call so far was an insert of a key not stored before.
OnlyDistinctInserts == nops = Cardinality(stored)

\* C13: after inserting n distinct keys in any order into an empty tree, the
\* height in edges (empty = -1, single node = 0) is at most
\* 1.44 * log2(n + 2) - 1.
C13_HeightBound ==
    OnlyDistinctInserts =>
        TrueHeight(root) - 1 <= HeightBound(Cardinality(stored))

C13_Witness ==
    /\ OnlyDistinctInserts
    /\ Cardinality(stored) >= 5
    /\ TrueHeight(root) - 1 = 2

\* C14 (under SpecAsc): while 1, 2, ..., 7 are inserted in that order
\* is_balanced() is True after each insertion, and after the seventh the tree
\* has height 2 in edges.
C14_AscendingRun ==
    /\ is_balanced(root) = TRUE
    /\ nops = AscLen => TrueHeight(root) - 1 = 2

C14_Witness ==
    /\ op = "insert"
    /\ nops = AscLen
    /\ inorder_traversal(root) = <<1, 2, 3, 4, 5, 6, 7>>

\* C15: get_height() without argument returns the number of edges on the
\* longest root-to-leaf path (-1 for an empty tree), also when some node has
\* exactly one child.
C15_GetHeight ==
    op = "get_height" => ret = Returned(TrueHeight(root) - 1)

\* C16: find_successor(k) returns the smallest stored key strictly greater
\* than k, and None when k is the maximum or is not stored.
C16_Successor ==
    op = "find_successor" =>
        LET above == {j \in stored : j > arg}
        IN  ret = IF arg \in stored /\ above # {}
                    THEN Returned(MinOf(above)) ELSE None

\* C17: find_predecessor(k) returns the largest stored key strictly smaller
\* than k, and None when k is the minimum or is not stored.
C17_Predecessor ==
    op = "find_predecessor" =>
        LET below == {j \in stored : j < arg}
        IN  ret = IF arg \in stored /\ below # {}
                    THEN Returned(MaxOf(below)) ELSE None

\* Balance recomputed from the shape of the tree, not from the height fields.
TrulyBalanced(rt) ==
    \A n \in Nodes(rt) :
        TrueHeight(n.left) - TrueHeight(n.right) \in {-1, 0, 1}

\* C18: in every reachable state is_balanced() returns True exactly when the
\* recomputed heights of the children of every node differ by at most 1.
C18_IsBalancedFaithful ==
    op = "is_balanced" => (ret = TRUE <=> TrulyBalanced(root))

\* is_balanced answered True on a tree of height 3 with an uneven node.
C18_Witness ==
    /\ op = "is_balanced"
    /\ ret = TRUE
    /\ TrueHeight(root) = 3
    /\ \E n \in Nodes(root) : _get_balance(n) # 0

C20_BstDeleteReturn ==
    op = "bst_delete" => (ret = TRUE <=> arg \in KeysOf(prevRoot))

\* C21 (under SpecBst): after every insert and delete on the unbalanced tree
\* is_valid_bst() is True, inorder_traversal() is strictly ascending and
\* get_size() equals the number of nodes.
C21_BstInvariants ==
    /\ is_valid_bst(root) = TRUE
    /\ LET t == inorder_traversal(root)
       IN  \A i \in 1..(Len(t) - 1) : t[i] < t[i + 1]
    /\ get_size(size) = CountNodes(root)

\* The nodes _insert_avl(node, data) comes back through, lowest first, each
\* as it is when step 2 starts: its child link already reassigned, its height
\* not yet updated.
RECURSIVE InsertPath(_, _)
InsertPath(node, data) ==
    IF node = None THEN <<>>
    ELSE IF data < node.data
      THEN Append(InsertPath(node.left, data),
                  [node EXCEPT !.left = _insert_avl(node.left, data, 0).node])
    ELSE IF data > node.data
      THEN Append(InsertPath(node.right, data),
                  [node EXCEPT !.right = _insert_avl(node.right, data, 0).node])
    ELSE <<>>

\* The same for _delete_avl(node, data).
RECURSIVE DeletePath(_, _)
DeletePath(node, data) ==
    IF node = None THEN <<>>
    ELSE IF data < node.data
      THEN Append(DeletePath(node.left, data),
                  [node EXCEPT !.left = _delete_avl(node.left, data, 0).node])
    ELSE IF data > node.data
      THEN Append(DeletePath(node.right, data),
                  [node EXCEPT !.right = _delete_avl(node.right, data, 0).node])
    ELSE IF node.left = None \/ node.right = None THEN <<>>
    ELSE Append(DeletePath(node.right, _find_min_node(node.right).data),
                replace_with_successor(node, 0).node)

\* The shape of a node is out of balance.
Unbalanced(n) == Abs(TrueHeight(n.left) - TrueHeight(n.right)) > 1

\* Steps 2-4 of the last insert rotated at the node n0.
InsertRotatedAt(n0) == insert_rebalance(n0, arg) # _update_height(n0)

\* C27: a single insert(k) rebalances at no more than one node of the path
\* from the new leaf to the root, and that node is the lowest node of the path
\* that is out of balance.
C27_OneRebalancePerInsert ==
    op = "insert" =>
        LET path == InsertPath(prevRoot, arg)
            I == 1..Len(path)
        IN  /\ Cardinality({i \in I : InsertRotatedAt(path[i])}) <= 1
            /\ \A i \in I :
                 InsertRotatedAt(path[i]) <=>
                    /\ Unbalanced(path[i])
                    /\ \A j \in 1..(i - 1) : ~Unbalanced(path[j])

\* The insert rotated at a node below the root, in a tree changed by deletes.
C27_Witness ==
    /\ op = "insert"
    /\ nops > Cardinality(stored)
    /\ LET path == InsertPath(prevRoot, arg)
       IN  \E i \in 1..(Len(path) - 1) : InsertRotatedAt(path[i])

\* C28: at every node where _insert_avl finds balance > 1 or < -1, one of the
\* four cases applies, and the case chosen by comparing the inserted key with
\* the key of the heavier child is the case the balance factor of that child
\* selects (the selection _delete_avl makes).
C28_InsertCaseByBalance ==
    op = "insert" =>
        LET path == InsertPath(prevRoot, arg)
        IN  \A i \in 1..Len(path) :
                LET node == _update_height(path[i])
                IN  _get_balance(node) \notin {-1, 0, 1} =>
                        /\ insert_case(node, arg) \in {"LL", "LR", "RR", "RL"}
                        /\ insert_case(node, arg) = delete_case(node)

\* The insert met a node that needs a double rotation.
C28_Witness ==
    /\ op = "insert"
    /\ LET path == InsertPath(prevRoot, arg)
       IN  \E i \in 1..Len(path) :
               insert_case(_update_height(path[i]), arg) \in {"LR", "RL"}

\* The node of the tree rt that holds the key k.
NodeHolding(rt, k) == CHOOSE n \in Nodes(rt) : n.data = k

\* The last call deleted a key whose node had both children.
DeletedTwoChildren ==
    /\ DeletedPresent
    /\ NodeHolding(prevRoot, arg).left # None
    /\ NodeHolding(prevRoot, arg).right # None

\* C29: when delete(k) removes a key whose node has both children, the node
\* takes the minimum key of its right subtree, the node that held that minimum
\* has no left child and is the one taken out of the right subtree, and the
\* left subtree is unchanged.
C29_SuccessorReplaces ==
    DeletedTwoChildren =>
        LET n == NodeHolding(prevRoot, arg)
            m == replace_with_successor(n, prevSize - 1).node
            successor == _find_min_node(n.right)
        IN  /\ m.data = MinOf(KeysOf(n.right))
            /\ successor.data = m.data
            /\ successor.left = None
            /\ KeysOf(m.right) = KeysOf(n.right) \ {m.data}
            /\ CountNodes(m.right) = CountNodes(n.right) - 1
            /\ m.left = n.left
            /\ KeysOf(root) = (KeysOf(prevRoot) \ {arg})

\* The successor of the deleted key is not the right child of its node.
C29_Witness ==
    /\ DeletedTwoChildren
    /\ CountNodes(prevRoot) >= 5
    /\ NodeHolding(prevRoot, arg).right.left # None

\* The rotations a case consists of, each with the subtree it is applied to.
RotationsOf(node, case) ==
    CASE case = "LL" -> {[rotate |-> "right", at |-> node]}
      [] case = "RR" -> {[rotate |-> "left", at |-> node]}
      [] case = "LR" ->
            {[rotate |-> "left", at |-> node.left],
             [rotate |-> "right",
              at |-> [node EXCEPT !.left = _rotate_left(node.left)]]}
      [] case = "RL" ->
            {[rotate |-> "right", at |-> node.right],
             [rotate |-> "left",
              at |-> [node EXCEPT !.right = _rotate_right(node.right)]]}
      [] OTHER -> {}

\* The rotations the last insert or delete applied.
AppliedRotations ==
    IF op = "insert"
      THEN LET path == InsertPath(prevRoot, arg)
           IN  UNION {RotationsOf(_update_height(path[i]),
                                  insert_case(_update_height(path[i]), arg)) :
                      i \in 1..Len(path)}
    ELSE IF op = "delete"
      THEN LET path == DeletePath(prevRoot, arg)
           IN  UNION {RotationsOf(_update_height(path[i]),
                                  delete_case(_update_height(path[i]))) :
                      i \in 1..Len(path)}
    ELSE {}

HeightFieldExact(n) ==
    n.height = 1 + Max(_get_height(n.left), _get_height(n.right))

\* C30: every rotation applied has the child it needs, returns a subtree with
\* the in-order key sequence and the node count of the subtree it was given,
\* and leaves exact height fields in the node moved down and in the new
\* subtree root.
C30_RotationsPreserve ==
    \A a \in AppliedRotations :
        LET before == a.at
            after == IF a.rotate = "right" THEN _rotate_right(before)
                                           ELSE _rotate_left(before)
            down == IF a.rotate = "right" THEN after.right ELSE after.left
        IN  /\ (IF a.rotate = "right" THEN before.left ELSE before.right) # None
            /\ _inorder_helper(after) = _inorder_helper(before)
            /\ CountNodes(after) = CountNodes(before)
            /\ down.data = before.data
            /\ HeightFieldExact(down)
            /\ HeightFieldExact(after)

\* A delete applied a double rotation.
C30_Witness ==
    /\ op = "delete"
    /\ Cardinality(AppliedRotations) = 2

\* ---------------------------------------------------------------- trie claims
\* p is a prefix of w
StartsWith(w, p) == Len(p) <= Len(w) /\ SubSeq(w, 1, Len(p)) = p

\* The words now stored that start with p, letter case ignored as the trie
\* ignores it.
StoredWithPrefix(p) == {w \in stored : StartsWith(w, lower(p))}

\* get_words_with_prefix lists exactly the stored words that start with the
\* prefix, each once.
TrieWordsAreStored ==
    op = "get_words_with_prefix" =>
        /\ {ret[i] : i \in 1..Len(ret)} = StoredWithPrefix(arg)
        /\ Len(ret) = Cardinality(StoredWithPrefix(arg))

\* C22: after any sequence of Trie.insert (repeats allowed) and Trie.delete,
\* count_words_with_prefix(p) is the number of words now stored that start
\* with p, which is the length of get_words_with_prefix(p).
C22_PrefixCount ==
    op = "count_words_with_prefix" =>
        /\ ret = Cardinality(StoredWithPrefix(arg))
        /\ ret = Len(get_words_with_prefix(obj, arg))

\* ---------------------------------------------------------------- graph claims
\* The unordered pairs {u, v} (a single {v} for a self-loop) that has_edge
\* reports in g.
EdgePairs(g) ==
    {{u, v} : <<u, v>> \in
        {e \in GraphVertices \X GraphVertices : has_edge(g, e[1], e[2])}}

\* C23: on an undirected graph, after any sequence of add_vertex, add_edge
\* (self-loops and repeated pairs included), remove_edge and remove_vertex,
\* edge_count() is the number of distinct unordered pairs {u, v} with
\* has_edge(u, v).
C23_EdgeCount ==
    op = "edge_count" => ret = Cardinality(EdgePairs(obj))

\* Without self-loops the count is right.
EdgeCountWithoutLoops ==
    (op = "edge_count" /\ \A v \in GraphVertices : ~has_edge(obj, v, v))
        => ret = Cardinality(EdgePairs(obj))

\* ---------------------------------------------------------------- queue claims
\* C24: CircularQueue(c) is a FIFO queue of at most c items.  to_list() is
\* the items enqueued and not yet dequeued, oldest first, size() is their
\* number and lies in 0..c; a dequeue returns the oldest of them; an enqueue
\* on a full queue raises QueueFullError and a dequeue on an empty queue
\* raises QueueEmptyError, each leaving the queue as it was.
C24_BoundedFifo ==
    /\ to_list(obj) = Fifo
    /\ queue_size(obj) = Len(Fifo)
    /\ queue_size(obj) \in 0..obj._capacity
    /\ op = "to_list" => ret = Fifo
    /\ op = "size" => ret = Len(Fifo)
    /\ op = "enqueue" =>
          IF Len(to_list(prevObj)) = prevObj._capacity
          THEN ret = Raised("QueueFullError") /\ obj = prevObj
          ELSE ret = None /\ to_list(obj) = Append(to_list(prevObj), arg)
    /\ op = "dequeue" =>
          IF Len(to_list(prevObj)) = 0
          THEN ret = Raised("QueueEmptyError") /\ obj = prevObj
          ELSE /\ ret = Returned(stored.enqueued[stored.dequeued])
               /\ ret = Returned(Head(to_list(prevObj)))
               /\ to_list(obj) = Tail(to_list(prevObj))

\* A dequeue returned the oldest item of a queue whose contents wrap around
\* the end of the array, the rear index lying before the front index.
C24_Witness ==
    /\ op = "dequeue"
    /\ prevObj._size >= 2
    /\ prevObj._rear < prevObj._front
    /\ ret = Returned(stored.enqueued[stored.dequeued])

\* ---------------------------------------------------------------- heap claims
\* parent <= child at every index of the array
HeapOrdered(heap) ==
    \A i \in 1..(Len(heap) - 1) : heap[_parent(i) + 1] <= heap[i + 1]

\* The values of a list ascend.
Ascending(list) ==
    \A i \in 1..(Len(list) - 1) : list[i] <= list[i + 1]

\* The least value of a non-empty list.
LeastOf(list) ==
    CHOOSE v \in HeapValues :
        /\ \E i \in 1..Len(list) : list[i] = v
        /\ \A i \in 1..Len(list) : v <= list[i]

\* C25: a MinHeap built from any list and changed by insert and extract_min
\* keeps parent <= children at every index and holds exactly the values put
\* in and not taken out; peek_min and extract_min return the least of them,
\* extract_min takes out one occurrence of it, and heap_sort returns all of
\* them in ascending order.
C25_MinHeapOrder ==
    /\ HeapOrdered(obj._heap)
    /\ Counts(obj._heap) = stored
    /\ op = "peek_min" =>
          IF Len(obj._heap) = 0 THEN ret = Raised("IndexError")
          ELSE ret = Returned(LeastStored)
    /\ op = "extract_min" =>
          IF Len(prevObj._heap) = 0
          THEN ret = Raised("IndexError") /\ obj = prevObj
          ELSE /\ ret = Returned(LeastOf(prevObj._heap))
               /\ Counts(obj._heap) =
                      [Counts(prevObj._heap) EXCEPT
                          ![LeastOf(prevObj._heap)] = @ - 1]
    /\ op = "heap_sort" =>
          /\ Ascending(ret)
          /\ Counts(ret) = Counts(prevObj._heap)
          /\ Len(obj._heap) = 0

\* extract_min took one of two equal minima out of a heap of at least four
\* elements, and the last element sank below the root's place.
C25_Witness ==
    /\ op = "extract_min"
    /\ Len(prevObj._heap) >= 4
    /\ Counts(prevObj._heap)[LeastOf(prevObj._heap)] >= 2
    /\ ret = Returned(LeastOf(prevObj._heap))
    /\ obj._heap[1] # prevObj._heap[Len(prevObj._heap)]

\* ---------------------------------------------------------------- search claims
\* The indices of arr that hold target.
IndicesOf(arr, target) == {i \in 0..(Len(arr) - 1) : arr[i + 1] = target}

\* C26: on every non-decreasing list, repeated values and the empty list
\* included, interpolation_search returns an index that holds the target
\* when the target occurs and -1 when it does not, and raises nothing.
C26_InterpolationSearch ==
    op = "interpolation_search" =>
        IF IndicesOf(obj.arr, obj.target) = {} THEN ret = Returned(-1)
        ELSE ret \in {Returned(i) : i \in IndicesOf(obj.arr, obj.target)}

\* What does hold: the search is right whenever it returns, and it returns on
\* every list without repeated values.
InterpolationRightIfReturned ==
    (op = "interpolation_search" /\ ret # Raised("ZeroDivisionError"))
        => IF IndicesOf(obj.arr, obj.target) = {} THEN ret = Returned(-1)
           ELSE ret \in {Returned(i) : i \in IndicesOf(obj.arr, obj.target)}

InterpolationReturnsOnDistinct ==
    (op = "interpolation_search"
        /\ \A i \in 1..(Len(obj.arr) - 1) : obj.arr[i] < obj.arr[i + 1])
        => ret # Raised("ZeroDivisionError")

====
